---- MODULE Spec2Model ----
(***************************************************************************)
(* Model of the job lifecycle of the AI image editor backend:              *)
(*   app/fal_api.py  submit_fal_job, check_job_status                      *)
(*   app/main.py     update_job_status (background monitor), create_job,   *)
(*                   check_job_status (on-demand), list_jobs, get_job      *)
(*   app/models.py   Job                                                   *)
(*                                                                         *)
(* The server is a single asyncio event loop.  A coroutine runs without    *)
(* interruption until it suspends; the only suspension inside the monitor  *)
(* is asyncio.sleep (fal_api's functions are "async def" but make plain    *)
(* blocking calls), so one loop iteration of the monitor is one atomic     *)
(* step, and so is each request handler.  The external inference service   *)
(* is not under the program's control: what fal_client.status and          *)
(* fal_client.result answer is drawn afresh at every call.  A database     *)
(* call of the monitor may raise; the loop catches it (main.py:91).        *)
(*                                                                         *)
(* Three specifications: Spec, the whole service over the first polls of   *)
(* each monitor; SpecSingle, one job and its monitor followed through all  *)
(* of its attempts; SpecList, the reads over stores at rest.               *)
(***************************************************************************)
EXTENDS Integers, Sequences, FiniteSets, TLC

VARIABLES
    FAL_API_KEY,  \* fal_api.FAL_API_KEY is set (read once, at import)
    jobs,         \* the jobs table: jobs[i] is the row with id i
    mon,          \* mon[i]: the update_job_status task scheduled for job i
    submitted,    \* submissions the external service has accepted so far
    last          \* the step just taken: the request, what it called, its response

vars == <<FAL_API_KEY, jobs, mon, submitted, last>>

----------------------------------------------------------------------------
(* Bounds of the model *)

MaxJobs == 2        \* Spec: rows the jobs table may hold
MaxPolls == 2       \* Spec: loop iterations of each monitor that are followed
NumUsers == 2       \* registered users
MaxListJobs == 4    \* SpecList: rows of the small stores, every ownership tried
MaxPage == 2        \* pages requested from list_jobs
MaxSmallLimit == 1  \* small page sizes requested from list_jobs

(* Program constants *)

max_attempts == 120        \* main.py:62
MaxImageBytes == 10485760  \* main.py:125  10 * 1024 * 1024
MinDim == 64               \* main.py:138
MaxDim == 4096             \* main.py:144
DefaultLimit == 20         \* main.py:265

NULL == "None"
Users == 1..NumUsers

TEXT_TO_IMAGE == "fal-ai/nano-banana"        \* fal_api.py:35
IMAGE_TO_IMAGE == "fal-ai/nano-banana/edit"  \* fal_api.py:22

Prompts == {"a red bicycle"}
DefaultStrength == "0.7"  \* main.py:105
ResultUrl == "https://fal.media/result.jpeg"
DataUrl == "data:image/jpeg;base64"

(* models.py: Job.status *)
Statuses == {"pending", "queued", "processing", "completed", "failed"}

----------------------------------------------------------------------------
(* The external inference service, as fal_client shows it *)

\* what fal_client.status(application, request_id) can do
FalStatus == {"Queued", "InProgress", "Completed", "Other", "Raises"}
\* what fal_client.result(application, request_id) can do: a result holding
\* an image, a result without "images", or an exception
FalResult == {"Image", "NoImages", "Raises"}

\* no call of fal_api.check_job_status
NotAsked == [st |-> "NotCalled", res |-> "NotCalled"]

\* the answers of the service to one fal_api.check_job_status: fal_client.result
\* is called only after status said Completed or raised
FalAnswers ==
    {a \in [st : FalStatus, res : FalResult \cup {"NotCalled"}] :
        a.res = "NotCalled" <=> a.st \notin {"Completed", "Raises"}}

\* result.get("images", [{}])[0].get("url") if result.get("images") else None
result_url_of(res) == IF res = "Image" THEN ResultUrl ELSE NULL

Reply(status, result_url) ==
    [raised |-> FALSE, status |-> status, result_url |-> result_url]
Raised == [raised |-> TRUE, status |-> NULL, result_url |-> NULL]
NoReply == [raised |-> FALSE, status |-> NULL, result_url |-> NULL]

\* check_job_status trusting the Completed status when the result is unavailable
fal_check_trusts_status(key, st, res) ==
    IF ~key THEN Raised
    ELSE CASE st = "Completed" -> Reply("completed", result_url_of(res))
           [] st = "InProgress" -> Reply("processing", NULL)
           [] st = "Queued" -> Reply("queued", NULL)
           [] st = "Other" -> Reply("pending", NULL)
           [] st = "Raises" ->
                 IF res = "Raises" THEN Reply("pending", NULL)
                 ELSE Reply("completed", result_url_of(res))

\* check_job_status reporting 'failed' when neither call answers
fal_check_gives_up(key, st, res) ==
    IF ~key THEN Raised
    ELSE CASE st = "Completed" ->
                 IF res = "Raises" THEN Reply("failed", NULL)
                 ELSE Reply("completed", result_url_of(res))
           [] st = "InProgress" -> Reply("processing", NULL)
           [] st = "Queued" -> Reply("queued", NULL)
           [] st = "Other" -> Reply("pending", NULL)
           [] st = "Raises" ->
                 IF res = "Raises" THEN Reply("failed", NULL)
                 ELSE Reply("completed", result_url_of(res))

\* fal_api.check_job_status: st and res are the answers of fal_client.status
\* and fal_client.result, should they be called
fal_check_job_status(key, st, res) ==
    IF ~key THEN Raised
    ELSE CASE st = "Completed" ->
                 IF res = "Raises" THEN Reply("failed", NULL)
                 ELSE Reply("completed", result_url_of(res))
           [] st = "InProgress" -> Reply("processing", NULL)
           [] st = "Queued" -> Reply("queued", NULL)
           [] st = "Other" -> Reply("pending", NULL)
           [] st = "Raises" ->
                 IF res = "Raises" THEN Reply("pending", NULL)
                 ELSE Reply("completed", result_url_of(res))

\* the text-to-image endpoint whatever is supplied
submit_endpoint_text_only(has_bytes) == TEXT_TO_IMAGE

\* fal_api.submit_fal_job: the endpoint chosen for the submission
submit_endpoint(has_bytes) == IF has_bytes THEN IMAGE_TO_IMAGE ELSE TEXT_TO_IMAGE

\* the submission without the test of the key
submit_ignores_key(key, submit_ok) == submit_ok

\* fal_api.submit_fal_job succeeds: the key is set and fal_client.submit returns
submit_succeeds(key, submit_ok) == key /\ submit_ok

----------------------------------------------------------------------------
(* Requests and responses *)

\* schemas.BaseResponse
Response(success, message, data) ==
    [success |-> success, message |-> message, data |-> data]

\* what a step leaves behind for the claims to read: the operation, the caller
\* and job id it was given, the call it made to the external service
\* ("none", "submit" or "status"), whether it committed a write of the job's
\* row and, if so, the answers of the service the write was made from, and
\* its response
Step(op, user, job_id, ext, wrote, ans, resp) ==
    [op |-> op, user |-> user, job_id |-> job_id, ext |-> ext,
     wrote |-> wrote, ans |-> ans, resp |-> resp]

\* data=None of a response
NoData == [none |-> TRUE]

NoResponse == Response(FALSE, NULL, NoData)

(* The upload of a create_job request: Optional[UploadFile] *)
NoUpload ==
    [attached |-> FALSE, filename |-> FALSE, content_type |-> NULL,
     size |-> 0, readable |-> FALSE, width |-> 0, height |-> 0]

Dims == {50, MinDim, MaxDim, MaxDim + 1}

\* an upload every check accepts, of the given dimensions
GoodFile(width, height) ==
    [attached |-> TRUE, filename |-> TRUE, content_type |-> "image/png",
     size |-> MaxImageBytes, readable |-> TRUE, width |-> width, height |-> height]

\* the uploads tried: every pair of dimensions, and a good file spoilt in
\* one way or in two
Files ==
    {GoodFile(w, h) : w \in Dims, h \in Dims}
    \cup {[GoodFile(MinDim, MaxDim) EXCEPT !.filename = FALSE],
          [GoodFile(MinDim, MaxDim) EXCEPT !.content_type = "text/plain"],
          [GoodFile(MinDim, MaxDim) EXCEPT !.size = MaxImageBytes + 1],
          [GoodFile(MinDim, MaxDim) EXCEPT !.readable = FALSE],
          [GoodFile(50, 50) EXCEPT !.content_type = "text/plain"],
          [GoodFile(50, 50) EXCEPT !.size = MaxImageBytes + 1],
          [GoodFile(MaxDim + 1, MinDim) EXCEPT !.readable = FALSE]}

Uploads == {NoUpload} \cup Files

\* main.py:113  "if image and image.filename"
image_given(image) == image.attached /\ image.filename

\* content_type.startswith('image/')
is_image_type(content_type) == content_type = "image/png"

\* the checks with the dimension test requiring both sides to be too small
validate_image_both_small(image) ==
    CASE ~is_image_type(image.content_type) -> "File must be an image"
      [] image.size > MaxImageBytes -> "Image too large (max 10MB)"
      [] ~image.readable -> "Invalid image file"
      [] image.width < MinDim /\ image.height < MinDim ->
             "Image too small (min 64x64 pixels)"
      [] image.width > MaxDim \/ image.height > MaxDim ->
             "Image too large (max 4096x4096 pixels)"
      [] OTHER -> "ok"

\* main.py:113-156: the message of the check that rejects the upload, or "ok"
validate_image(image) ==
    CASE ~is_image_type(image.content_type) -> "File must be an image"
      [] image.size > MaxImageBytes -> "Image too large (max 10MB)"
      [] ~image.readable -> "Invalid image file"
      [] image.width < MinDim \/ image.height < MinDim ->
             "Image too small (min 64x64 pixels)"
      [] image.width > MaxDim \/ image.height > MaxDim ->
             "Image too large (max 4096x4096 pixels)"
      [] OTHER -> "ok"

\* the row built without the request id of the submission
new_job_without_request_id(id, prompt, image_url, request_id, owner_id, application, strength) ==
    [id |-> id, prompt |-> prompt, image_url |-> image_url,
     result_url |-> NULL, fal_request_id |-> NULL,
     owner_id |-> owner_id, application |-> application,
     status |-> "pending", strength |-> strength]

\* models.Job, as create_job builds it (main.py:166-175)
new_job(id, prompt, image_url, request_id, owner_id, application, strength) ==
    [id |-> id, prompt |-> prompt, image_url |-> image_url,
     result_url |-> NULL, fal_request_id |-> request_id,
     owner_id |-> owner_id, application |-> application,
     status |-> "pending", strength |-> strength]

\* the task BackgroundTasks.add_task schedules (main.py:182), at its first
\* line.  pc: "loop" at the head of the loop, "finished" after the break,
\* "exhausted" after the loop ran out.  only_processing records the past:
\* every iteration so far was told 'processing' and committed it.
new_monitor == [pc |-> "loop", attempt |-> 0, only_processing |-> TRUE]

\* request ids are the external service's: the n-th accepted submission gets n
request_id_of(n) == "req-" \o ToString(n)

----------------------------------------------------------------------------
(* POST /api/jobs *)

create_job(user, prompt, image, strength, submit_ok) ==
    /\ LET given == image_given(image)
           verdict == IF given THEN validate_image(image) ELSE "ok"
           \* image_bytes is None unless an image was given, and a valid
           \* image is never empty
           has_bytes == given
           image_url == IF given THEN DataUrl ELSE NULL
       IN  IF verdict # "ok"
           THEN /\ last' = Step("create_job", user, 0, "none", FALSE, NotAsked,
                                Response(FALSE, verdict, NoData))
                /\ UNCHANGED <<FAL_API_KEY, jobs, mon, submitted>>
           ELSE IF ~submit_succeeds(FAL_API_KEY, submit_ok)
           THEN /\ last' = Step("create_job", user, 0,
                                IF FAL_API_KEY THEN "submit" ELSE "none",
                                FALSE, NotAsked,
                                Response(FALSE, "Failed to create job", NoData))
                /\ UNCHANGED <<FAL_API_KEY, jobs, mon, submitted>>
           ELSE LET job == new_job(Len(jobs) + 1, prompt, image_url,
                                   request_id_of(submitted + 1), user,
                                   submit_endpoint(has_bytes),
                                   IF has_bytes THEN strength ELSE NULL)
                IN  /\ submitted' = submitted + 1
                    /\ jobs' = Append(jobs, job)
                    /\ mon' = Append(mon, new_monitor)
                    /\ last' = Step("create_job", user, job.id, "submit", TRUE, NotAsked,
                                    Response(TRUE, "Job created successfully", job))
                    /\ UNCHANGED FAL_API_KEY

----------------------------------------------------------------------------
(* The background monitor: update_job_status, one task per job *)

\* what can happen to the task's database calls in one iteration: they work,
\* or one raises before fal_api is asked (main.py:67-68), or one raises
\* after (main.py:73-82)
DbOutcomes == {"ok", "raises_before_poll", "raises_after_poll"}

\* the write with the rule of the on-demand check: completed without a
\* result url is stored as failed
monitor_write_forces_failed(job, reply) ==
    [job EXCEPT !.status = IF reply.status = "completed" /\ reply.result_url = NULL
                           THEN "failed" ELSE reply.status,
                !.result_url = IF reply.status = "completed"
                               THEN reply.result_url ELSE @]

\* main.py:76-82: the row as the iteration commits it
monitor_write(job, reply) ==
    [job EXCEPT !.status = reply.status,
                !.result_url = IF reply.status = "completed"
                               THEN reply.result_url ELSE @]

\* the loop left on 'completed' only
monitor_breaks_completed_only(reply) == reply.status = "completed"

\* the loop left on 'failed' only
monitor_breaks_failed_only(reply) == reply.status = "failed"

\* main.py:85: the loop is left on this reply
monitor_breaks(reply) == reply.status \in {"completed", "failed"}

\* the task once it has returned: its frame, and attempt with it, is gone
returned(pc) == [pc |-> pc, attempt |-> 0, only_processing |-> FALSE]

\* the iteration with its query lacking the filter on the job's id:
\* .first() is then the row of the lowest id
monitor_iteration_first_row(j, ans, db) ==
    /\ j \in 1..Len(mon)
    /\ mon[j].pc = "loop"
    /\ mon[j].attempt < max_attempts
    /\ LET reply == IF db = "raises_before_poll" THEN NoReply
                    ELSE fal_check_job_status(FAL_API_KEY, ans.st, ans.res)
           polled == db # "raises_before_poll" /\ ~reply.raised
           wrote == polled /\ db = "ok"
           again == [pc |-> "loop", attempt |-> mon[j].attempt + 1,
                     only_processing |-> mon[j].only_processing /\ wrote
                                          /\ reply.status = "processing"]
       IN  /\ jobs' = IF wrote THEN [jobs EXCEPT ![1] = monitor_write(@, reply)]
                      ELSE jobs
           /\ mon' = [mon EXCEPT ![j] = IF wrote /\ monitor_breaks(reply)
                                        THEN returned("finished") ELSE again]
           /\ last' = Step("update_job_status", 0, j,
                           IF polled THEN "status" ELSE "none", wrote,
                           IF wrote THEN ans ELSE NotAsked, NoResponse)
           /\ UNCHANGED <<FAL_API_KEY, submitted>>

\* the iteration counting an attempt only when nothing was raised: sleep and
\* attempt += 1 inside the try block
monitor_iteration_free_retry(j, ans, db) ==
    /\ j \in 1..Len(mon)
    /\ mon[j].pc = "loop"
    /\ mon[j].attempt < max_attempts
    /\ LET reply == IF db = "raises_before_poll" THEN NoReply
                    ELSE fal_check_job_status(FAL_API_KEY, ans.st, ans.res)
           polled == db # "raises_before_poll" /\ ~reply.raised
           wrote == polled /\ db = "ok"
           again == [pc |-> "loop",
                     attempt |-> IF wrote THEN mon[j].attempt + 1 ELSE mon[j].attempt,
                     only_processing |-> mon[j].only_processing /\ wrote
                                          /\ reply.status = "processing"]
       IN  /\ jobs' = IF wrote THEN [jobs EXCEPT ![j] = monitor_write(@, reply)]
                      ELSE jobs
           /\ mon' = [mon EXCEPT ![j] = IF wrote /\ monitor_breaks(reply)
                                        THEN returned("finished") ELSE again]
           /\ last' = Step("update_job_status", 0, j,
                           IF polled THEN "status" ELSE "none", wrote,
                           IF wrote THEN ans ELSE NotAsked, NoResponse)
           /\ UNCHANGED <<FAL_API_KEY, submitted>>

\* main.py:65-96: one pass of the loop body, then sleep and attempt += 1
monitor_iteration(j, ans, db) ==
    /\ j \in 1..Len(mon)
    /\ mon[j].pc = "loop"
    /\ mon[j].attempt < max_attempts
    /\ LET reply == IF db = "raises_before_poll" THEN NoReply
                    ELSE fal_check_job_status(FAL_API_KEY, ans.st, ans.res)
           polled == db # "raises_before_poll" /\ ~reply.raised
           wrote == polled /\ db = "ok"
           again == [pc |-> "loop", attempt |-> mon[j].attempt + 1,
                     only_processing |-> mon[j].only_processing /\ wrote
                                          /\ reply.status = "processing"]
       IN  /\ jobs' = IF wrote THEN [jobs EXCEPT ![j] = monitor_write(@, reply)]
                      ELSE jobs
           /\ mon' = [mon EXCEPT ![j] = IF wrote /\ monitor_breaks(reply)
                                        THEN returned("finished") ELSE again]
           /\ last' = Step("update_job_status", 0, j,
                           IF polled THEN "status" ELSE "none", wrote,
                           IF wrote THEN ans ELSE NotAsked, NoResponse)
           /\ UNCHANGED <<FAL_API_KEY, submitted>>

\* the task marking the job failed when its attempts run out
monitor_exit_marks_failed(j) ==
    /\ j \in 1..Len(mon)
    /\ mon[j].pc = "loop"
    /\ mon[j].attempt >= max_attempts
    /\ mon' = [mon EXCEPT ![j].pc = "exhausted"]
    /\ jobs' = [jobs EXCEPT ![j].status = "failed"]
    /\ last' = Step("update_job_status", 0, j, "none", TRUE, NotAsked, NoResponse)
    /\ UNCHANGED <<FAL_API_KEY, submitted>>

\* main.py:65, 98: the loop condition fails and the task returns
monitor_exit(j) ==
    /\ j \in 1..Len(mon)
    /\ mon[j].pc = "loop"
    /\ mon[j].attempt >= max_attempts
    /\ mon' = [mon EXCEPT ![j].pc = "exhausted"]
    /\ last' = Step("update_job_status", 0, j, "none", FALSE, NotAsked, NoResponse)
    /\ UNCHANGED <<FAL_API_KEY, jobs, submitted>>

----------------------------------------------------------------------------
(* The owner-scoped reads of the store *)

\* the filter without its owner clause
owned_job_any_owner(store, job_id, user) ==
    {i \in 1..Len(store) : store[i].id = job_id}

\* db.query(Job).filter(Job.id == job_id, Job.owner_id == user.id): the ids
\* of the rows the filter keeps
owned_job(store, job_id, user) ==
    {i \in 1..Len(store) : store[i].id = job_id /\ store[i].owner_id = user}

not_found == Response(FALSE, "Job not found", NoData)

RECURSIVE reversed(_)
reversed(s) == IF s = <<>> THEN <<>> ELSE Append(reversed(Tail(s)), Head(s))

\* .offset(skip).limit(limit) of a result list
offset_limit(rows, skip, limit) ==
    SubSeq(rows, skip + 1, IF skip + limit < Len(rows) THEN skip + limit ELSE Len(rows))

\* the page with skip computed as page * limit
jobs_page_skips_a_page(store, user, page, limit) ==
    LET own == SelectSeq(store, LAMBDA r : r.owner_id = user)
    IN  offset_limit(reversed(own), page * limit, limit)

\* main.py:272-279: the page of the user's rows, highest id first
jobs_page(store, user, page, limit) ==
    LET own == SelectSeq(store, LAMBDA r : r.owner_id = user)
    IN  offset_limit(reversed(own), (page - 1) * limit, limit)

\* get_job asking the external service and storing 'processing'
get_job_refreshes(user, job_id) ==
    LET found == owned_job(jobs, job_id, user)
    IN  IF found = {}
        THEN /\ last' = Step("get_job", user, job_id, "none", FALSE, NotAsked, not_found)
             /\ UNCHANGED <<FAL_API_KEY, jobs, mon, submitted>>
        ELSE LET i == CHOOSE i \in found : TRUE
             IN  /\ jobs' = [jobs EXCEPT ![i].status = "processing"]
                 /\ last' = Step("get_job", user, job_id, "status", TRUE, NotAsked,
                                 Response(TRUE, "Job retrieved successfully", jobs'[i]))
                 /\ UNCHANGED <<FAL_API_KEY, mon, submitted>>

\* GET /api/jobs/{job_id}
get_job(user, job_id) ==
    /\ LET found == owned_job(jobs, job_id, user)
       IN  last' = Step("get_job", user, job_id, "none", FALSE, NotAsked,
                        IF found = {} THEN not_found
                        ELSE Response(TRUE, "Job retrieved successfully",
                                      jobs[CHOOSE i \in found : TRUE]))
    /\ UNCHANGED <<FAL_API_KEY, jobs, mon, submitted>>

\* GET /api/jobs
list_jobs(user, page, limit) ==
    /\ last' = Step("list_jobs", user, 0, "none", FALSE, NotAsked,
                    Response(TRUE, "Jobs retrieved successfully",
                             jobs_page(jobs, user, page, limit)))
    /\ UNCHANGED <<FAL_API_KEY, jobs, mon, submitted>>

----------------------------------------------------------------------------
(* GET /api/jobs/{job_id}/status: the on-demand status check *)

\* the service asked again whatever the stored status
recheck_wanted_any_status(job) == job.fal_request_id # NULL

\* main.py:221: the external service is asked again
recheck_wanted(job) == job.status = "completed" /\ job.fal_request_id # NULL

\* the reconciliation testing the row's url before it stores the reply's
reconcile_tests_stored_url(job, reply) ==
    CASE reply.status = "completed" ->
             [job EXCEPT !.status = IF job.result_url = NULL
                                    THEN "failed" ELSE "completed",
                         !.result_url = reply.result_url]
      [] reply.status = "failed" -> [job EXCEPT !.status = "failed"]
      [] reply.status = "processing" -> [job EXCEPT !.status = "processing"]
      [] OTHER -> job

\* main.py:227-236: the row after the reply is applied
reconcile(job, reply) ==
    CASE reply.status = "completed" ->
             [job EXCEPT !.status = IF reply.result_url = NULL
                                    THEN "failed" ELSE "completed",
                         !.result_url = reply.result_url]
      [] reply.status = "failed" -> [job EXCEPT !.status = "failed"]
      [] reply.status = "processing" -> [job EXCEPT !.status = "processing"]
      [] OTHER -> job

\* main.py:246-254: the data of the response
status_data(job, reply) ==
    [job_id |-> job.id, status |-> job.status,
     fal_request_id |-> job.fal_request_id, result_url |-> reply.result_url]

check_job_status(user, job_id, ans) ==
    LET found == owned_job(jobs, job_id, user)
    IN  IF found = {}
        THEN /\ last' = Step("check_job_status", user, job_id, "none",
                             FALSE, NotAsked, not_found)
             /\ UNCHANGED <<FAL_API_KEY, jobs, mon, submitted>>
        ELSE LET i == CHOOSE i \in found : TRUE
                 asked == recheck_wanted(jobs[i])
                 reply == IF asked
                          THEN fal_check_job_status(FAL_API_KEY, ans.st, ans.res)
                          ELSE NoReply
                 wrote == asked /\ ~reply.raised
                 job == IF wrote THEN reconcile(jobs[i], reply) ELSE jobs[i]
             IN  /\ jobs' = [jobs EXCEPT ![i] = job]
                 /\ last' = Step("check_job_status", user, job_id,
                                 IF wrote THEN "status" ELSE "none", wrote,
                                 IF wrote THEN ans ELSE NotAsked,
                                 Response(TRUE, "Job status retrieved successfully",
                                          status_data(job, reply)))
                 /\ UNCHANGED <<FAL_API_KEY, mon, submitted>>

----------------------------------------------------------------------------
(* The system *)

NoStep == Step("start", 0, 0, "none", FALSE, NotAsked, NoResponse)

Init ==
    /\ FAL_API_KEY \in BOOLEAN
    /\ jobs = <<>>
    /\ mon = <<>>
    /\ submitted = 0
    /\ last = NoStep

Pages == 1..MaxPage
Limits == (1..MaxSmallLimit) \cup {DefaultLimit}
\* the answers the service may give to a status check of job_id by user: none
\* when the handler does not ask
answers_for(user, job_id) ==
    IF \E i \in owned_job(jobs, job_id, user) : recheck_wanted(jobs[i])
    THEN FalAnswers ELSE {NotAsked}

\* whether fal_client.submit returns matters only to a request that reaches it
submits_for(image) ==
    IF image_given(image) /\ validate_image(image) # "ok" THEN {TRUE} ELSE BOOLEAN

Requests ==
    \/ \E user \in Users, job_id \in 1..(Len(jobs) + 1) :
           \E ans \in answers_for(user, job_id) : check_job_status(user, job_id, ans)
    \/ \E user \in Users, job_id \in 1..(Len(jobs) + 1) : get_job(user, job_id)
    \/ \E user \in Users, page \in Pages, limit \in Limits : list_jobs(user, page, limit)

Create ==
    \E user \in Users, prompt \in Prompts, image \in Uploads :
        \E submit_ok \in submits_for(image) :
            create_job(user, prompt, image, DefaultStrength, submit_ok)

(* The whole service, up to MaxJobs jobs, each monitor followed over its      *)
(* first MaxPolls iterations                                                  *)
Next ==
    \/ Len(jobs) < MaxJobs /\ Create
    \/ \E j \in 1..Len(mon), ans \in FalAnswers, db \in DbOutcomes :
           mon[j].attempt < MaxPolls /\ monitor_iteration(j, ans, db)
    \/ Requests

Spec == Init /\ [][Next]_vars

(* The service with one job, its monitor followed to its end *)
NextSingle ==
    \/ jobs = <<>> /\ Create
    \/ \E j \in 1..Len(mon), ans \in FalAnswers, db \in DbOutcomes :
           monitor_iteration(j, ans, db)
    \/ \E j \in 1..Len(mon) : monitor_exit(j)
    \/ \E user \in Users, job_id \in 1..(Len(jobs) + 1) :
           \E ans \in answers_for(user, job_id) : check_job_status(user, job_id, ans)

SpecSingle == Init /\ [][NextSingle]_vars

\* a step of some monitor task
MonitorStep ==
    \/ \E j \in 1..Len(mon), ans \in FalAnswers, db \in DbOutcomes :
           monitor_iteration(j, ans, db)
    \/ \E j \in 1..Len(mon) : monitor_exit(j)

(* The same service, the event loop resuming a monitor whenever its sleep is  *)
(* over: asyncio.sleep(5) returns, and every call of the task returns or      *)
(* raises                                                                     *)
SpecSingleFair == SpecSingle /\ WF_vars(MonitorStep)

(* list_jobs and get_job over stores at rest: every job's monitor has         *)
(* returned.  The stores are those the service reaches by accepting text      *)
(* prompts whose first poll finds the result unavailable.                     *)
MaxBigJobs == 45   \* SpecList: rows of the large stores

quiet_job(id, owner) ==
    [new_job(id, "a red bicycle", NULL, request_id_of(id), owner,
             TEXT_TO_IMAGE, NULL) EXCEPT !.status = "failed"]

\* the small stores, owned in every way, and large ones owned in turn by the
\* first k users
ListStores ==
    UNION {{[i \in 1..n |-> quiet_job(i, owner[i])] : owner \in [1..n -> Users]} :
              n \in 0..MaxListJobs}
    \cup {[i \in 1..MaxBigJobs |-> quiet_job(i, 1 + (i % k))] : k \in Users}

InitList ==
    /\ FAL_API_KEY = TRUE
    /\ jobs \in ListStores
    /\ mon = [i \in 1..Len(jobs) |-> returned("finished")]
    /\ submitted = Len(jobs)
    /\ last = NoStep

NextList ==
    \/ \E user \in Users, page \in Pages, limit \in Limits : list_jobs(user, page, limit)
    \/ \E user \in Users, job_id \in 1..(Len(jobs) + 1) : get_job(user, job_id)

SpecList == InitList /\ [][NextList]_vars

----------------------------------------------------------------------------
(* The claims *)

JobIds == 1..Len(jobs)

\* C1: every job stored as completed has a result_url.  The monitor breaks
\* it: it stores 'completed' with the url of a result that holds no image.
C1_CompletedHasResult ==
    \A i \in JobIds : jobs[i].status = "completed" => jobs[i].result_url # NULL

\* the job of the request exists and belongs to someone else, or does not exist
NotOwn(user, job_id) ==
    \A i \in JobIds : jobs[i].id = job_id => jobs[i].owner_id # user

\* C2: get_job and the on-demand status check, asked by a user for a job id
\* that is another user's or nobody's, answer "Job not found" with no data,
\* call the external service not at all and leave the store as it is;
\* list_jobs returns rows of the caller only and changes nothing.
C2_OwnerScoped ==
    [][/\ (/\ last'.op \in {"get_job", "check_job_status"}
           /\ NotOwn(last'.user, last'.job_id))
          => /\ ~last'.resp.success
             /\ last'.resp.message = "Job not found"
             /\ last'.resp.data = NoData
             /\ last'.ext = "none"
             /\ jobs' = jobs
       /\ last'.op = "list_jobs"
          => /\ \A k \in 1..Len(last'.resp.data) :
                    last'.resp.data[k].owner_id = last'.user
             /\ last'.ext = "none"
             /\ jobs' = jobs]_vars

\* a user asked for the status check of another user's completed job
C2_Witness ==
    /\ last.op = "check_job_status"
    /\ last.job_id \in JobIds
    /\ jobs[last.job_id].owner_id # last.user
    /\ jobs[last.job_id].status = "completed"
    /\ last.resp.message = "Job not found"

\* C3: a monitor that ran out of its 120 attempts, each of which was told
\* 'processing' and committed it, has returned and left the job 'processing'.
C3_ExhaustedStaysProcessing ==
    \A j \in 1..Len(mon) :
        (mon[j].pc = "exhausted" /\ mon[j].only_processing)
        => /\ mon[j].attempt = max_attempts
           /\ jobs[j].status = "processing"
           /\ jobs[j].result_url = NULL

C3_Witness ==
    \E j \in 1..Len(mon) : mon[j].pc = "exhausted" /\ mon[j].only_processing

\* C4: a write made from a status of Completed whose result could not be
\* fetched stores 'failed', by the monitor and by the on-demand check.
C4_ResultThrowsStoresFailed ==
    (/\ last.op \in {"update_job_status", "check_job_status"}
     /\ last.wrote
     /\ last.ans = [st |-> "Completed", res |-> "Raises"])
    => jobs[last.job_id].status = "failed"

\* the on-demand check has made such a write
C4_Witness ==
    /\ last.op = "check_job_status"
    /\ last.wrote
    /\ last.ans = [st |-> "Completed", res |-> "Raises"]
    /\ jobs[last.job_id].status = "failed"

\* C5: an on-demand status check that follows at once an on-demand status
\* check of the same job by the same user, the service answering as before if
\* it is asked, leaves the stored status as the first check left it.
C5_CheckTwiceSameStatus ==
    [][(/\ last.op = "check_job_status"
        /\ last'.op = "check_job_status"
        /\ last'.user = last.user
        /\ last'.job_id = last.job_id
        /\ last'.job_id \in JobIds
        /\ last'.ext = "status" => last'.ans = last.ans)
       => jobs'[last'.job_id].status = jobs[last.job_id].status]_vars

\* a check has asked the service and left the job completed: the check that
\* follows it asks again
C5_Witness ==
    /\ last.op = "check_job_status"
    /\ last.ext = "status"
    /\ last.job_id \in JobIds
    /\ jobs[last.job_id].status = "completed"
    /\ jobs[last.job_id].owner_id = last.user

\* an attached upload that fails one of the checks of create_job
FailsValidation(image) ==
    /\ image.attached /\ image.filename
    /\ \/ image.content_type # "image/png"
       \/ image.size > 10 * 1024 * 1024
       \/ ~image.readable
       \/ image.width < 64 \/ image.height < 64
       \/ image.width > 4096 \/ image.height > 4096

\* C6: create_job with an attached image that fails validation answers with a
\* failure, adds no row, submits nothing to the external service and
\* schedules no monitor.
C6_InvalidImageRejected ==
    [][last'.op = "create_job" =>
       \A user \in Users, prompt \in Prompts, image \in Uploads, submit_ok \in BOOLEAN :
           (/\ FailsValidation(image)
            /\ create_job(user, prompt, image, DefaultStrength, submit_ok))
           => /\ ~last'.resp.success
              /\ last'.resp.data = NoData
              /\ last'.ext = "none"
              /\ jobs' = jobs
              /\ mon' = mon
              /\ submitted' = submitted]_vars

\* the 50x50 image was turned down
C6_Witness ==
    /\ last.op = "create_job"
    /\ ~last.resp.success
    /\ last.resp.message = "Image too small (min 64x64 pixels)"
    /\ last.ext = "none"

\* C7: create_job whose submission fails, the key being unset or
\* fal_client.submit raising, answers with a failure, adds no row and
\* schedules no monitor.
C7_SubmitFailureNoRow ==
    [][last'.op = "create_job" =>
       \A user \in Users, prompt \in Prompts, image \in Uploads, submit_ok \in BOOLEAN :
           (/\ ~FAL_API_KEY \/ ~submit_ok
            /\ create_job(user, prompt, image, DefaultStrength, submit_ok))
           => /\ ~last'.resp.success
              /\ last'.resp.data = NoData
              /\ jobs' = jobs
              /\ mon' = mon]_vars

\* fal_client.submit was called and raised
C7_Witness ==
    /\ last.op = "create_job"
    /\ last.ext = "submit"
    /\ ~last.resp.success
    /\ last.resp.message = "Failed to create job"

OwnIds(user) == {i \in JobIds : jobs[i].owner_id = user}

\* the user's k-th newest job: k - 1 of the user's jobs have a higher id
Newest(user, k) ==
    jobs[CHOOSE i \in OwnIds(user) :
             Cardinality({h \in OwnIds(user) : h > i}) = k - 1]

\* the user's jobs from the from-th newest to the to-th newest, as far as
\* there are any
NewestSlice(user, from, to) ==
    LET n == Cardinality(OwnIds(user))
        end == IF to < n THEN to ELSE n
    IN  [k \in 1..(IF end >= from THEN end - from + 1 ELSE 0) |->
            Newest(user, from + k - 1)]

\* C9: for every user and page size, pages 1 and 2 of list_jobs are the
\* user's newest jobs in order, newest first, the second page starting right
\* after the last job of the first: nothing twice, nothing skipped.  And what
\* list_jobs has answered is such a page.
C9_Pagination ==
    /\ \A user \in Users, limit \in Limits :
           /\ jobs_page(jobs, user, 1, limit) = NewestSlice(user, 1, limit)
           /\ jobs_page(jobs, user, 2, limit) = NewestSlice(user, limit + 1, 2 * limit)
    /\ last.op = "list_jobs" =>
           \E page \in Pages, limit \in Limits :
               last.resp.data =
                   NewestSlice(last.user, (page - 1) * limit + 1, page * limit)

\* list_jobs has answered a full second page of 20
C9_Witness ==
    /\ last.op = "list_jobs"
    /\ Len(last.resp.data) = 20
    /\ Cardinality(OwnIds(last.user)) >= 40
    /\ last.resp.data[1] = Newest(last.user, 21)

Rank(status) ==
    CASE status = "pending" -> 0
      [] status = "queued" -> 1
      [] status = "processing" -> 2
      [] status \in {"completed", "failed"} -> 3

\* C10: no step moves a job's stored status to an earlier stage of
\* pending < queued < processing < {completed, failed}, nor a completed or
\* failed job out of these two.  The monitor breaks it: it stores whatever
\* status it is told.
C10_StatusMonotonic ==
    [][\A i \in JobIds :
           /\ Rank(jobs'[i].status) >= Rank(jobs[i].status)
           /\ jobs[i].status \in {"completed", "failed"}
              => jobs'[i].status \in {"completed", "failed"}]_vars

\* C11: a stored result_url is non-null only if the stored status is
\* 'completed'.  The on-demand check breaks it: told 'failed' or 'processing'
\* about a completed job, it changes the status and keeps the result_url.
C11_ResultOnlyIfCompleted ==
    \A i \in JobIds : jobs[i].result_url # NULL => jobs[i].status = "completed"

\* C12: a monitor step that commits 'completed' or 'failed' is the task's
\* last: the task has returned, and a returned task takes no further step,
\* so it neither asks the external service nor writes the store again.
C12_TerminalStopsMonitor ==
    [][/\ (/\ last'.op = "update_job_status"
           /\ last'.wrote
           /\ jobs'[last'.job_id].status \in {"completed", "failed"})
          => mon'[last'.job_id].pc = "finished"
       /\ \A j \in 1..Len(mon) :
              mon[j].pc = "finished"
              => /\ mon'[j] = mon[j]
                 /\ ~(last'.op = "update_job_status" /\ last'.job_id = j)]_vars

\* the monitor stopped on 'failed' and the service went on: the owner has
\* since asked for the job's status
C12_Witness ==
    /\ last.op = "check_job_status"
    /\ last.job_id \in JobIds
    /\ jobs[last.job_id].owner_id = last.user
    /\ mon[last.job_id].pc = "finished"
    /\ jobs[last.job_id].status = "failed"

\* C13: the on-demand status check of the caller's own job whose stored
\* status is not 'completed' calls the external service not at all, leaves
\* the store as it is and answers with the stored status.
C13_NotCompletedNoRecheck ==
    [][(/\ last'.op = "check_job_status"
        /\ last'.job_id \in JobIds
        /\ jobs[last'.job_id].owner_id = last'.user
        /\ jobs[last'.job_id].status # "completed")
       => /\ last'.ext = "none"
          /\ ~last'.wrote
          /\ jobs' = jobs
          /\ last'.resp.success
          /\ last'.resp.data.status = jobs[last'.job_id].status]_vars

\* the status of a job left 'processing' by its exhausted monitor was asked
C13_Witness ==
    /\ last.op = "check_job_status"
    /\ last.job_id \in JobIds
    /\ jobs[last.job_id].owner_id = last.user
    /\ mon[last.job_id].pc = "exhausted"
    /\ jobs[last.job_id].status = "processing"
    /\ last.resp.data.status = "processing"

\* C14: get_job and list_jobs call the external service not at all and
\* leave every row of the store, and every monitor, as it was.
C14_ReadsChangeNothing ==
    [][last'.op \in {"get_job", "list_jobs"}
       => /\ last'.ext = "none"
          /\ ~last'.wrote
          /\ jobs' = jobs
          /\ mon' = mon
          /\ submitted' = submitted]_vars

\* the owner has read a completed job with get_job while another job's
\* monitor is still polling
C14_Witness ==
    /\ last.op = "get_job"
    /\ last.resp.success
    /\ last.resp.data.status = "completed"
    /\ \E j \in 1..Len(mon) : mon[j].pc = "loop" /\ mon[j].attempt > 0

\* C15: a step of the monitor of job j leaves the row of every other job as
\* it was, and adds and removes no row.
C15_MonitorWritesOwnRow ==
    [][last'.op = "update_job_status"
       => /\ Len(jobs') = Len(jobs)
          /\ \A i \in JobIds : i # last'.job_id => jobs'[i] = jobs[i]]_vars

\* the monitor of the second job has written its row to a status the first
\* job's row, written by its own monitor, does not have
C15_Witness ==
    /\ last.op = "update_job_status"
    /\ last.wrote
    /\ last.job_id = 2
    /\ mon[1].attempt > 0
    /\ jobs[2].status = "completed"
    /\ jobs[1].status = "processing"

\* the request ids the external service has given out
IssuedRequestIds == {request_id_of(n) : n \in 1..submitted}

\* C16: no two rows hold the same fal_request_id, and the fal_request_id of
\* every row is the id of a submission the external service accepted, the
\* service giving every submission an id of its own.
C16_RequestIdUnique ==
    /\ \A i \in JobIds, k \in JobIds :
           i # k => jobs[i].fal_request_id # jobs[k].fal_request_id
    /\ \A i \in JobIds : jobs[i].fal_request_id \in IssuedRequestIds

\* a second job has just been stored, with the id of the second submission
C16_Witness ==
    /\ Len(jobs) = 2
    /\ last.op = "create_job"
    /\ last.resp.success
    /\ jobs[1].fal_request_id = "req-1"
    /\ jobs[2].fal_request_id = "req-2"

\* the status query and the fallback fetch of the result both fail
BothFail == [st |-> "Raises", res |-> "Raises"]

\* C17: when fal_client.status and the fallback fal_client.result both fail,
\* fal_api.check_job_status raises nothing and reports 'pending'; the monitor
\* iteration that receives it commits 'pending', stays in its loop and has
\* used one attempt, so it polls again if an attempt remains.
C17_UnknownKeepsPolling ==
    [][last'.op = "update_job_status" =>
       \A j \in 1..Len(mon) :
           (FAL_API_KEY /\ monitor_iteration(j, BothFail, "ok"))
           => /\ fal_check_job_status(TRUE, "Raises", "Raises") = Reply("pending", NULL)
              /\ last'.ext = "status"
              /\ last'.wrote
              /\ jobs'[j].status = "pending"
              /\ mon'[j].pc = "loop"
              /\ mon'[j].attempt = mon[j].attempt + 1]_vars

\* a monitor was told so on its second poll or a later one and goes on
C17_Witness ==
    /\ last.op = "update_job_status"
    /\ last.wrote
    /\ last.ans = BothFail
    /\ mon[last.job_id].pc = "loop"
    /\ mon[last.job_id].attempt >= 2
    /\ mon[last.job_id].attempt < max_attempts
    /\ jobs[last.job_id].status = "pending"

\* C18: after an on-demand status check that asked the external service and
\* was answered, the stored status is the reported one, 'failed' standing
\* for a completed report without a result url.  The handler breaks it: told
\* 'queued' or 'pending', it leaves the stored status 'completed'.
C18_CheckStoresReported ==
    (last.op = "check_job_status" /\ last.ext = "status")
    => LET reply == fal_check_job_status(FAL_API_KEY, last.ans.st, last.ans.res)
       IN  jobs[last.job_id].status =
               IF reply.status = "completed" /\ reply.result_url = NULL
               THEN "failed" ELSE reply.status

\* C19: after a monitor iteration whose poll and commit succeeded, the
\* stored status is the status the poll reported, and the stored result_url
\* is the reported one if that status is 'completed'.
C19_MonitorStoresReported ==
    (last.op = "update_job_status" /\ last.wrote)
    => LET reply == fal_check_job_status(FAL_API_KEY, last.ans.st, last.ans.res)
       IN  /\ jobs[last.job_id].status = reply.status
           /\ reply.status = "completed"
              => jobs[last.job_id].result_url = reply.result_url

\* a later poll of a monitor found the job completed, with its image
C19_Witness ==
    /\ last.op = "update_job_status"
    /\ last.wrote
    /\ last.ans = [st |-> "Completed", res |-> "Image"]
    /\ jobs[last.job_id].status = "completed"
    /\ jobs[last.job_id].result_url = ResultUrl
    /\ mon[last.job_id].pc = "finished"

\* C20: no monitor writes a job's row after an on-demand status check has
\* written it.  The on-demand check writes a row only when the job's monitor
\* has returned, a returned monitor stays returned, and a monitor that has
\* returned writes nothing.
C20_NoMonitorWriteAfterCheck ==
    [][/\ (last'.op = "check_job_status" /\ last'.wrote)
          => /\ jobs[last'.job_id].status = "completed"
             /\ mon[last'.job_id].pc = "finished"
       /\ \A j \in 1..Len(mon) :
              mon[j].pc = "finished"
              => /\ mon'[j].pc = "finished"
                 /\ ~(/\ last'.op = "update_job_status"
                      /\ last'.job_id = j
                      /\ last'.wrote)]_vars

\* an on-demand check has rewritten the first job to 'processing', and the
\* monitor of the second job has since written its own row
C20_Witness ==
    /\ last.op = "update_job_status"
    /\ last.wrote
    /\ last.job_id = 2
    /\ mon[1].pc = "finished"
    /\ jobs[1].status = "processing"

\* C21: every monitor task returns, and it asks the external service at most
\* 120 times.  Every iteration that does not leave the loop, one that raised
\* included, counts one attempt; the service is asked only while fewer than
\* 120 attempts are counted; and a task that is started has in the end
\* returned, whatever the service and the database do.
C21_MonitorTerminates ==
    /\ [][last'.op = "update_job_status" =>
          LET j == last'.job_id
          IN  /\ mon[j].pc = "loop"
              /\ last'.ext = "status" => mon[j].attempt < max_attempts
              /\ mon'[j].pc = "loop" => mon'[j].attempt = mon[j].attempt + 1
              /\ mon'[j].attempt <= max_attempts]_vars
    /\ \A j \in 1..MaxJobs :
           (j \in 1..Len(mon)) ~> (j \in 1..Len(mon) /\ mon[j].pc # "loop")

\* a monitor none of whose attempts wrote the store has run out of attempts
\* and returned: the job is as it was created
C21_Witness ==
    \E j \in 1..Len(mon) :
        /\ mon[j].pc = "exhausted"
        /\ mon[j].attempt = max_attempts
        /\ jobs[j].status = "pending"
        /\ last.op = "update_job_status"
        /\ last.job_id = j

\* C22: a job whose stored status is 'pending', 'queued' or 'processing' has
\* a monitor that is still in its loop or that returned because its attempts
\* ran out.  The on-demand check breaks it: told 'processing' about a
\* completed job, whose monitor has returned, it stores 'processing'.
C22_NonTerminalIsMonitored ==
    \A j \in JobIds :
        jobs[j].status \in {"pending", "queued", "processing"}
        => mon[j].pc \in {"loop", "exhausted"}

====
